---- MODULE Spec2Model ----
(***************************************************************************)
(* Model of Project3.py, the menu-driven personal expense tracker.         *)
(*                                                                         *)
(* Text is modelled as a sequence of one-character strings; the rupee sign *)
(* is the single character "Rs" and a month name is a single token ("Jan", *)
(* "January").  A number is the exact decimal [n, e] standing for          *)
(* n / 10^e with trailing fraction zeros removed, so that equal floats are *)
(* equal values.                                                           *)
(***************************************************************************)
EXTENDS Integers, Sequences, FiniteSets, TLC

(***************************************************************************)
(* Bounds of the model.                                                    *)
(***************************************************************************)
MaxRecords == 2
MaxLen == 3

(***************************************************************************)
(* Characters and the str methods the program uses.                        *)
(***************************************************************************)
Digits == {"0", "1", "2", "3", "4", "5", "6", "7", "8", "9"}

DigitVal(c) ==
  CASE c = "0" -> 0 [] c = "1" -> 1 [] c = "2" -> 2 [] c = "3" -> 3
    [] c = "4" -> 4 [] c = "5" -> 5 [] c = "6" -> 6 [] c = "7" -> 7
    [] c = "8" -> 8 [] c = "9" -> 9

DigitChar(v) ==
  CASE v = 0 -> "0" [] v = 1 -> "1" [] v = 2 -> "2" [] v = 3 -> "3"
    [] v = 4 -> "4" [] v = 5 -> "5" [] v = 6 -> "6" [] v = 7 -> "7"
    [] v = 8 -> "8" [] v = 9 -> "9"

\* code point order of the characters of the model, as str comparison uses it
CharCode(c) ==
  CASE c = " " -> 32 [] c = "," -> 44 [] c = "-" -> 45 [] c = "." -> 46
    [] c = "/" -> 47 [] c \in Digits -> 48 + DigitVal(c)
    [] c = "A" -> 65 [] c = "B" -> 66 [] c = "C" -> 67 [] c = "I" -> 73
    [] c = "M" -> 77 [] c = "N" -> 78 [] c = "Q" -> 81 [] c = "S" -> 83
    [] c = "X" -> 88 [] c = "Y" -> 89
    [] c = "a" -> 97 [] c = "b" -> 98 [] c = "c" -> 99 [] c = "i" -> 105
    [] c = "m" -> 109 [] c = "n" -> 110 [] c = "q" -> 113 [] c = "s" -> 115
    [] c = "x" -> 120 [] c = "y" -> 121
    [] c = "Jan" -> 200 [] c = "January" -> 201 [] c = "Rs" -> 8377

Lower(c) ==
  CASE c = "A" -> "a" [] c = "B" -> "b" [] c = "M" -> "m" [] c = "Q" -> "q"
    [] c = "X" -> "x" [] c = "Y" -> "y" [] c = "N" -> "n"
    [] c = "C" -> "c" [] c = "I" -> "i" [] c = "S" -> "s"
    [] OTHER -> c

Upper(c) ==
  CASE c = "a" -> "A" [] c = "b" -> "B" [] c = "m" -> "M" [] c = "q" -> "Q"
    [] c = "x" -> "X" [] c = "y" -> "Y" [] c = "n" -> "N"
    [] c = "c" -> "C" [] c = "i" -> "I" [] c = "s" -> "S"
    [] OTHER -> c

IsLetter(c) == Lower(c) # Upper(c)

RECURSIVE lstrip(_)
lstrip(s) == IF s # <<>> /\ Head(s) = " " THEN lstrip(Tail(s)) ELSE s

RECURSIVE rstrip(_)
rstrip(s) ==
  IF s # <<>> /\ s[Len(s)] = " " THEN rstrip(SubSeq(s, 1, Len(s) - 1)) ELSE s

\* str.strip()
strip(s) == rstrip(lstrip(s))

\* str.lower()
lower(s) == [i \in 1..Len(s) |-> Lower(s[i])]

\* str.title(): a letter is upper-cased after a non-letter, lower-cased after a letter
title(s) ==
  [i \in 1..Len(s) |->
     IF i = 1 \/ ~IsLetter(s[i - 1]) THEN Upper(s[i]) ELSE Lower(s[i])]

\* lexicographic str comparison a < b
RECURSIVE StrLess(_, _)
StrLess(a, b) ==
  IF b = <<>> THEN FALSE
  ELSE IF a = <<>> THEN TRUE
  ELSE IF Head(a) # Head(b) THEN CharCode(Head(a)) < CharCode(Head(b))
  ELSE StrLess(Tail(a), Tail(b))

(***************************************************************************)
(* Numbers: float(), int() and sanitize_amount.                            *)
(***************************************************************************)
RECURSIVE DigitsToNat(_)
DigitsToNat(ds) ==
  IF ds = <<>> THEN 0
  ELSE 10 * DigitsToNat(SubSeq(ds, 1, Len(ds) - 1)) + DigitVal(ds[Len(ds)])

RECURSIVE Normalize(_, _)
Normalize(n, e) ==
  IF e > 0 /\ n % 10 = 0 THEN Normalize(n \div 10, e - 1) ELSE [n |-> n, e |-> e]

ValueError == [ok |-> FALSE]

Ok(v) == [ok |-> TRUE, val |-> v]

IsDigit(c) == c \in Digits

IsMinus(c) == c = "-"

\* float(text) for text made of digits, '.' and '-': [-](d+[.d*] | .d+)
float(cs) ==
  LET neg  == cs # <<>> /\ cs[1] = "-"
      body == IF neg THEN Tail(cs) ELSE cs
      ds   == SelectSeq(body, IsDigit)
      dots == { i \in 1..Len(body) : body[i] = "." }
      frac == IF dots = {} THEN 0 ELSE Len(body) - (CHOOSE i \in dots : TRUE)
      mag  == DigitsToNat(ds)
  IN IF SelectSeq(body, IsMinus) # <<>> \/ Cardinality(dots) > 1 \/ ds = <<>>
     THEN ValueError
     ELSE Ok(Normalize(IF neg THEN 0 - mag ELSE mag, frac))

IsNumChar(c) == c \in Digits \/ c = "." \/ c = "-"

\* seeded fault: the pattern [^\d.] drops the minus sign as well
sanitize_amount_nominus(s) ==
  LET cleaned == SelectSeq(SelectSeq(strip(s), IsNumChar), LAMBDA c : c # "-")
  IN IF cleaned = <<>> THEN ValueError ELSE float(cleaned)

sanitize_amount(s) ==
  LET cleaned == SelectSeq(strip(s), IsNumChar)
  IN IF cleaned = <<>> THEN ValueError ELSE float(cleaned)

\* int(text): optional sign, then one or more digits
int(cs) ==
  LET t    == strip(cs)
      sgn  == t # <<>> /\ t[1] \in {"-", "+"}
      body == IF sgn THEN Tail(t) ELSE t
  IN IF body = <<>> \/ \E i \in 1..Len(body) : body[i] \notin Digits
     THEN ValueError
     ELSE Ok(IF sgn /\ t[1] = "-" THEN 0 - DigitsToNat(body) ELSE DigitsToNat(body))

(***************************************************************************)
(* Dates: datetime.strptime, datetime.strftime and parse_date.             *)
(***************************************************************************)
\* the clock: datetime.now() is the first of March 2024 throughout a run
Today == [Y |-> 2024, m |-> 3, d |-> 1]

IsLeap(y) == (y % 4 = 0 /\ y % 100 # 0) \/ y % 400 = 0

DaysIn(y, m) ==
  IF m = 2 THEN (IF IsLeap(y) THEN 29 ELSE 28)
  ELSE IF m \in {4, 6, 9, 11} THEN 30 ELSE 31

\* month names of the model: token -> month number
AbbrMonth(c) == IF c = "Jan" THEN 1 ELSE 0

FullMonth(c) == IF c = "January" THEN 1 ELSE 0

\* the five formats of parse_date, in the order it tries them
formats ==
  << <<"Y", "-", "m", "-", "d">>,
     <<"d", "-", "m", "-", "Y">>,
     <<"d", "/", "m", "/", "Y">>,
     <<"d", " ", "b", " ", "Y">>,
     <<"d", " ", "B", " ", "Y">> >>

AllDigits(s) == \A i \in 1..Len(s) : s[i] \in Digits

\* number of characters a one- or two-digit field (%d up to 31, %m up to 12)
\* takes from the front of s, 0 when it does not match
FieldWidth(s, max) ==
  IF Len(s) >= 2 /\ s[1] \in Digits /\ s[2] \in Digits
     /\ DigitsToNat(SubSeq(s, 1, 2)) \in 1..max
  THEN 2
  ELSE IF s # <<>> /\ s[1] \in Digits /\ s[1] # "0" THEN 1
  ELSE 0

\* the regular expression strptime builds from the format, matched against
\* the whole text; acc collects the fields
RECURSIVE Match(_, _, _)
Match(s, fmt, acc) ==
  IF fmt = <<>> THEN (IF s = <<>> THEN Ok(acc) ELSE ValueError)
  ELSE
    LET f == Head(fmt)
        rest(k) == SubSeq(s, k + 1, Len(s))
    IN CASE f = "Y" ->
              IF Len(s) >= 4 /\ AllDigits(SubSeq(s, 1, 4))
              THEN Match(rest(4), Tail(fmt),
                         [acc EXCEPT !.Y = DigitsToNat(SubSeq(s, 1, 4))])
              ELSE ValueError
         [] f = "d" ->
              LET w == FieldWidth(s, 31)
              IN IF w = 0 THEN ValueError
                 ELSE Match(rest(w), Tail(fmt),
                            [acc EXCEPT !.d = DigitsToNat(SubSeq(s, 1, w))])
         [] f = "m" ->
              LET w == FieldWidth(s, 12)
              IN IF w = 0 THEN ValueError
                 ELSE Match(rest(w), Tail(fmt),
                            [acc EXCEPT !.m = DigitsToNat(SubSeq(s, 1, w))])
         [] f = "b" ->
              IF s # <<>> /\ AbbrMonth(s[1]) # 0
              THEN Match(rest(1), Tail(fmt), [acc EXCEPT !.m = AbbrMonth(s[1])])
              ELSE ValueError
         [] f = "B" ->
              IF s # <<>> /\ FullMonth(s[1]) # 0
              THEN Match(rest(1), Tail(fmt), [acc EXCEPT !.m = FullMonth(s[1])])
              ELSE ValueError
         [] f = " " ->
              IF s # <<>> /\ s[1] = " " THEN Match(lstrip(s), Tail(fmt), acc)
              ELSE ValueError
         [] OTHER ->
              IF s # <<>> /\ s[1] = f THEN Match(rest(1), Tail(fmt), acc)
              ELSE ValueError

\* datetime.strptime(s, fmt): the fields must match and name a real day
strptime(s, fmt) ==
  LET r == Match(s, fmt, [Y |-> 0, m |-> 0, d |-> 0])
  IN IF r.ok /\ r.val.Y >= 1 /\ r.val.d <= DaysIn(r.val.Y, r.val.m)
     THEN r ELSE ValueError

RECURSIVE NatToDigits(_)
NatToDigits(n) ==
  IF n < 10 THEN <<DigitChar(n)>>
  ELSE NatToDigits(n \div 10) \o <<DigitChar(n % 10)>>

Pad2(n) == IF n < 10 THEN <<"0">> \o NatToDigits(n) ELSE NatToDigits(n)

\* d.strftime("%Y-%m-%d"): the C library's %Y writes the year without
\* leading zeros (CPython 3.11 on glibc), %m and %d are two digits
strftime(dt) ==
  NatToDigits(dt.Y) \o <<"-">> \o Pad2(dt.m) \o <<"-">> \o Pad2(dt.d)

RECURSIVE TryFormats(_, _)
TryFormats(s, i) ==
  IF i > Len(formats) THEN ValueError
  ELSE LET r == strptime(s, formats[i])
       IN IF r.ok THEN Ok(strftime(r.val)) ELSE TryFormats(s, i + 1)

parse_date(text) ==
  LET s == strip(text)
  IN IF s = <<>> THEN Ok(strftime(Today)) ELSE TryFormats(s, 1)

(***************************************************************************)
(* The session: main() and the operations it dispatches to.                *)
(***************************************************************************)
VARIABLES
  pc,          \* the prompt the session is waiting at, "start" before load, "done" after main returns
  expenses,    \* the in-memory list of records
  file,        \* content of expenses.json
  backups,     \* contents of the expenses.json.backup.* files
  saveFailed,  \* whether a save attempt has failed
  amount,      \* add_expense: the parsed amount
  category,    \* add_expense: the category
  item,        \* edit_expense / delete_expense: the selected record
  orig_index,  \* edit_expense: storage index of the record being edited
  inp,         \* the text read by the last input() call
  ev,          \* what the last step was: "load", "input" or "interrupt"
  saveCalls,   \* number of save_expenses calls made by the last step
  start,       \* the in-memory list when the current operation started
  text,        \* argument of the stand-alone sanitize_amount call
  result,      \* its outcome
  parsed       \* whether the call has been made

vars == <<pc, expenses, file, backups, saveFailed, amount, category, item,
          orig_index, inp, ev, saveCalls, start, text, result, parsed>>

Q == <<"q">>

MISC == <<"M", "i", "s", "c">>

NoItem == [ok |-> FALSE]

\* file contents
Missing == [kind |-> "missing"]

List(recs) == [kind |-> "list", data |-> recs]

Object == [kind |-> "object", bytes |-> "{\"a\":1}"]

Garbage(b) == [kind |-> "garbage", bytes |-> b]

Unreadable == [kind |-> "unreadable"]

\* what a failed save leaves behind: the previous content when the file could
\* not be opened, a truncated one when the write broke off; the session never
\* reads the file again, so the two are not told apart
Stale == [kind |-> "stale"]

D0105 == <<"2", "0", "2", "4", "-", "0", "1", "-", "0", "5">>

D0301 == <<"2", "0", "2", "4", "-", "0", "3", "-", "0", "1">>

RecA == [amount |-> [n |-> 5, e |-> 0], category |-> MISC, date |-> D0105]

RecB == [amount |-> [n |-> 12, e |-> 0], category |-> MISC, date |-> D0301]

\* the files a session may find when it starts
InitFiles ==
  { Missing, Object, Unreadable, Garbage("not json"),
    List(<<>>), List(<<RecA>>), List(<<RecA, RecB, RecA>>) }

\* the texts typed at the prompts
MenuInputs ==
  { <<"1">>, <<"2">>, <<" ", "4">>, <<"5">>, <<"6">>, <<"x">> }

AmountInputs ==
  { <<"5">>, <<"Rs", "1", ",", "2">>, <<".">>, <<>>, <<"q">> }

CategoryInputs == { <<"m", "I", "S", "c">>, <<>>, <<" ", "q">> }

AddDateInputs ==
  { D0105,
    <<"0", "5", "-", "0", "1", "-", "2", "0", "2", "4">>,
    <<"5", "/", "1", "/", "2", "0", "2", "4">>,
    <<"5", " ", "Jan", " ", "2", "0", "2", "4">>,
    <<"5", " ", "January", " ", "2", "0", "2", "4">>,
    <<"0", "9", "9", "9", "-", "0", "1", "-", "0", "5">>,
    <<"3", "1", "-", "0", "2", "-", "2", "0", "2", "4">>,
    <<>>, <<"Q", " ">> }

EditDateInputs ==
  { <<"5", "/", "1", "/", "2", "0", "2", "4">>,
    <<"3", "1", "-", "0", "2", "-", "2", "0", "2", "4">>,
    <<>>, <<"Q", " ">> }

SelectionInputs ==
  { <<"1">>, <<"2">>, <<" ", "3">>, <<"4">>, <<"0">>, <<"-", "1">>,
    <<"x">>, <<"q">> }

ConfirmInputs == { <<"y">>, <<" ", "Y">>, <<"n">>, <<>>, <<"q">> }

AddPrompts == {"add_amt", "add_cat", "add_date"}

EditPrompts == {"edit_sel", "edit_amt", "edit_cat", "edit_date"}

DeletePrompts == {"del_sel", "del_confirm"}

(***************************************************************************)
(* List helpers.                                                           *)
(***************************************************************************)
\* x goes behind every element whose date is not smaller than its own
RECURSIVE Insert(_, _)
Insert(s, x) ==
  IF s = <<>> THEN <<x>>
  ELSE IF StrLess(Head(s).date, x.date) THEN <<x>> \o s
  ELSE <<Head(s)>> \o Insert(Tail(s), x)

\* sorted(expenses, key=lambda x: x["date"], reverse=True)
RECURSIVE sorted(_)
sorted(s) ==
  IF s = <<>> THEN <<>>
  ELSE Insert(sorted(SubSeq(s, 1, Len(s) - 1)), s[Len(s)])

\* seq[idx] of a Python list: a negative idx counts from the end
GetItem(s, idx) ==
  IF idx >= 0 /\ idx < Len(s) THEN Ok(s[idx + 1])
  ELSE IF idx < 0 /\ idx >= 0 - Len(s) THEN Ok(s[Len(s) + idx + 1])
  ELSE NoItem

\* seeded fault: the last matching element instead of the first
LastIndex(s, x) ==
  IF \E i \in 1..Len(s) : s[i] = x
  THEN CHOOSE i \in 1..Len(s) : s[i] = x /\ \A j \in (i + 1)..Len(s) : s[j] # x
  ELSE 0

\* index of the first element of s equal to x, 0 when there is none
FirstIndex(s, x) ==
  IF \E i \in 1..Len(s) : s[i] = x
  THEN CHOOSE i \in 1..Len(s) : s[i] = x /\ \A j \in 1..(i - 1) : s[j] # x
  ELSE 0

\* del s[i]
Remove(s, i) == SubSeq(s, 1, i - 1) \o SubSeq(s, i + 1, Len(s))

(***************************************************************************)
(* Store.                                                                  *)
(***************************************************************************)
\* seeded fault: the write goes to another path and is never noticed
save_expenses_elsewhere(recs) ==
  /\ saveCalls' = 1
  /\ UNCHANGED <<file, saveFailed>>

\* save_expenses: the write replaces the file, or fails and is reported
save_expenses(recs) ==
  /\ saveCalls' = 1
  /\ \/ file' = List(recs) /\ UNCHANGED saveFailed
     \/ file' = Stale /\ saveFailed' = TRUE

NoSave == saveCalls' = 0 /\ UNCHANGED <<file, saveFailed>>

\* the operation returns: its locals are gone
Return(recs) ==
  /\ amount' = ValueError
  /\ category' = <<>>
  /\ item' = NoItem
  /\ orig_index' = 0
  /\ start' = recs

ToMenu(recs) == pc' = "menu" /\ Return(recs)

Pure == UNCHANGED <<text, result, parsed>>

\* seeded fault: a file of the wrong shape is moved away like a corrupt one
load_expenses_moves_object(f, b) ==
  CASE f.kind = "missing" -> { [ret |-> <<>>, file |-> f, backups |-> b] }
    [] f.kind = "list" -> { [ret |-> f.data, file |-> f, backups |-> b] }
    [] f.kind \in {"object", "garbage"} ->
         { [ret |-> <<>>, file |-> Missing, backups |-> b \cup {f}],
           [ret |-> <<>>, file |-> f, backups |-> b] }
    [] OTHER -> { [ret |-> <<>>, file |-> f, backups |-> b] }

\* load_expenses on file f with backup files b: the possible outcomes, each
\* the list returned and the files left behind; os.rename may fail
load_expenses(f, b) ==
  CASE f.kind = "missing" -> { [ret |-> <<>>, file |-> f, backups |-> b] }
    [] f.kind = "list" -> { [ret |-> f.data, file |-> f, backups |-> b] }
    [] f.kind = "object" -> { [ret |-> <<>>, file |-> f, backups |-> b] }
    [] f.kind = "garbage" ->
         { [ret |-> <<>>, file |-> Missing, backups |-> b \cup {f}],
           [ret |-> <<>>, file |-> f, backups |-> b] }
    [] OTHER -> { [ret |-> <<>>, file |-> f, backups |-> b] }

\* main, line 221: expenses = load_expenses()
Load ==
  /\ pc = "start"
  /\ \E o \in load_expenses(file, backups) :
       /\ expenses' = o.ret
       /\ file' = o.file
       /\ backups' = o.backups
       /\ ToMenu(o.ret)
  /\ ev' = "load"
  /\ inp' = <<>>
  /\ saveCalls' = 0
  /\ UNCHANGED saveFailed
  /\ Pure

(***************************************************************************)
(* The menu loop and the operations, one action per input() call.          *)
(***************************************************************************)
Read(s) == ev' = "input" /\ inp' = s /\ Pure /\ UNCHANGED backups

Locals == <<amount, category, item, orig_index>>

\* main: the menu prompt and the dispatch up to the operation's first prompt
MainMenu ==
  /\ pc = "menu"
  /\ \E s \in MenuInputs :
       LET choice == strip(s)
       IN /\ Read(s)
          /\ NoSave
          /\ UNCHANGED <<expenses, Locals, start>>
          /\ CASE choice = <<"1">> -> Len(expenses) < MaxRecords /\ pc' = "add_amt"
               [] choice = <<"4">> ->
                    pc' = IF expenses = <<>> THEN "menu" ELSE "edit_sel"
               [] choice = <<"5">> ->
                    pc' = IF expenses = <<>> THEN "menu" ELSE "del_sel"
               [] choice = <<"6">> -> pc' = "done"
               [] OTHER -> pc' = "menu"

\* add_expense: the amount prompt
AddAmount ==
  /\ pc = "add_amt"
  /\ \E s \in AmountInputs :
       LET amt_input == strip(s)
           r == sanitize_amount(amt_input)
       IN /\ Read(s)
          /\ NoSave
          /\ UNCHANGED expenses
          /\ IF lower(amt_input) = Q THEN ToMenu(expenses)
             ELSE IF r.ok
             THEN pc' = "add_cat" /\ amount' = r /\ UNCHANGED <<category, item, orig_index, start>>
             ELSE UNCHANGED <<pc, Locals, start>>

\* seeded fault: the title-cased category is compared with "q" without lower()
AddCategoryCased ==
  /\ pc = "add_cat"
  /\ \E s \in CategoryInputs :
       LET cat == title(strip(s))
       IN /\ Read(s)
          /\ NoSave
          /\ UNCHANGED expenses
          /\ IF cat = Q THEN ToMenu(expenses)
             ELSE /\ pc' = "add_date"
                  /\ category' = IF cat = <<>> THEN MISC ELSE cat
                  /\ UNCHANGED <<amount, item, orig_index, start>>

\* add_expense: the category prompt
AddCategory ==
  /\ pc = "add_cat"
  /\ \E s \in CategoryInputs :
       LET cat == title(strip(s))
       IN /\ Read(s)
          /\ NoSave
          /\ UNCHANGED expenses
          /\ IF lower(cat) = Q THEN ToMenu(expenses)
             ELSE /\ pc' = "add_date"
                  /\ category' = IF cat = <<>> THEN MISC ELSE cat
                  /\ UNCHANGED <<amount, item, orig_index, start>>

\* add_expense: the date prompt, and the append and save that follow it
AddDate ==
  /\ pc = "add_date"
  /\ \E s \in AddDateInputs :
       LET r == parse_date(s)
       IN /\ Read(s)
          /\ IF lower(strip(s)) = Q THEN ToMenu(expenses) /\ NoSave /\ UNCHANGED expenses
             ELSE IF r.ok
             THEN /\ expenses' = Append(expenses,
                        [amount |-> amount.val, category |-> category, date |-> r.val])
                  /\ save_expenses(expenses')
                  /\ ToMenu(expenses')
             ELSE NoSave /\ UNCHANGED <<expenses, pc, Locals, start>>

\* the selection both edit_expense and delete_expense make: the record the
\* typed number picks out of the displayed list, NoItem for IndexError/ValueError
Select(recs, choice) ==
  LET r == int(choice)
  IN IF r.ok THEN GetItem(sorted(recs), r.val - 1) ELSE NoItem

\* edit_expense: the selection prompt
EditSelect ==
  /\ pc = "edit_sel"
  /\ \E s \in SelectionInputs :
       LET choice == strip(s)
           sel == Select(expenses, choice)
       IN /\ Read(s)
          /\ NoSave
          /\ UNCHANGED expenses
          /\ IF lower(choice) = Q \/ ~sel.ok THEN ToMenu(expenses)
             ELSE /\ pc' = "edit_amt"
                  /\ item' = sel
                  /\ orig_index' = FirstIndex(expenses, sel.val)
                  /\ UNCHANGED <<amount, category, start>>

\* seeded fault: the ValueError of a bad amount reaches the outer handler,
\* which ends the edit
EditAmountAborts ==
  /\ pc = "edit_amt"
  /\ \E s \in AmountInputs :
       LET new_amt == strip(s)
           r == sanitize_amount(new_amt)
       IN /\ Read(s)
          /\ NoSave
          /\ IF new_amt # <<>> /\ ~r.ok
             THEN UNCHANGED expenses /\ ToMenu(expenses)
             ELSE /\ pc' = "edit_cat"
                  /\ UNCHANGED <<start, Locals>>
                  /\ expenses' = IF new_amt # <<>>
                                 THEN [expenses EXCEPT ![orig_index].amount = r.val]
                                 ELSE expenses

\* edit_expense: the amount prompt
EditAmount ==
  /\ pc = "edit_amt"
  /\ \E s \in AmountInputs :
       LET new_amt == strip(s)
           r == sanitize_amount(new_amt)
       IN /\ Read(s)
          /\ NoSave
          /\ pc' = "edit_cat"
          /\ UNCHANGED <<start, Locals>>
          /\ expenses' = IF new_amt # <<>> /\ r.ok
                         THEN [expenses EXCEPT ![orig_index].amount = r.val]
                         ELSE expenses

\* edit_expense: the category prompt
EditCategory ==
  /\ pc = "edit_cat"
  /\ \E s \in CategoryInputs :
       LET new_cat == strip(s)
       IN /\ Read(s)
          /\ NoSave
          /\ pc' = "edit_date"
          /\ UNCHANGED <<start, Locals>>
          /\ expenses' = IF new_cat # <<>>
                         THEN [expenses EXCEPT ![orig_index].category = title(new_cat)]
                         ELSE expenses

\* edit_expense: the date prompt, and the save that follows it
EditDate ==
  /\ pc = "edit_date"
  /\ \E s \in EditDateInputs :
       LET new_date == strip(s)
           r == parse_date(new_date)
       IN /\ Read(s)
          /\ expenses' = IF new_date # <<>> /\ r.ok
                         THEN [expenses EXCEPT ![orig_index].date = r.val]
                         ELSE expenses
          /\ save_expenses(expenses')
          /\ ToMenu(expenses')

\* delete_expense: the selection prompt
DeleteSelect ==
  /\ pc = "del_sel"
  /\ \E s \in SelectionInputs :
       LET choice == strip(s)
           sel == Select(expenses, choice)
       IN /\ Read(s)
          /\ NoSave
          /\ UNCHANGED expenses
          /\ IF lower(choice) = Q \/ ~sel.ok THEN ToMenu(expenses)
             ELSE /\ pc' = "del_confirm"
                  /\ item' = sel
                  /\ UNCHANGED <<amount, category, orig_index, start>>

\* delete_expense: the confirmation prompt, and the removal and save
DeleteConfirm ==
  /\ pc = "del_confirm"
  /\ \E s \in ConfirmInputs :
       LET confirm == lower(strip(s))
           i == FirstIndex(expenses, item.val)
       IN /\ Read(s)
          /\ IF confirm = <<"y">> /\ i # 0
             THEN expenses' = Remove(expenses, i) /\ save_expenses(expenses')
             ELSE NoSave /\ UNCHANGED expenses
          /\ ToMenu(expenses')

\* seeded fault: main's handler returns without saving
InterruptNoSave ==
  /\ pc \in {"menu"} \cup AddPrompts \cup EditPrompts \cup DeletePrompts
  /\ ev' = "interrupt"
  /\ inp' = <<>>
  /\ Pure
  /\ UNCHANGED <<expenses, backups>>
  /\ Return(expenses)
  /\ NoSave
  /\ pc' = IF pc \in AddPrompts THEN "menu" ELSE "done"

\* Ctrl-C while input() waits: add_expense catches it and returns to the
\* menu; everywhere else it reaches main, which saves and returns
Interrupt ==
  /\ pc \in {"menu"} \cup AddPrompts \cup EditPrompts \cup DeletePrompts
  /\ ev' = "interrupt"
  /\ inp' = <<>>
  /\ Pure
  /\ UNCHANGED <<expenses, backups>>
  /\ Return(expenses)
  /\ IF pc \in AddPrompts
     THEN pc' = "menu" /\ NoSave
     ELSE save_expenses(expenses) /\ pc' = "done"

Init ==
  /\ pc = "start"
  /\ expenses = <<>>
  /\ file \in InitFiles
  /\ backups = {}
  /\ saveFailed = FALSE
  /\ amount = ValueError
  /\ category = <<>>
  /\ item = NoItem
  /\ orig_index = 0
  /\ inp = <<>>
  /\ ev = "none"
  /\ saveCalls = 0
  /\ start = <<>>
  /\ text = <<>>
  /\ result = ValueError
  /\ parsed = FALSE

Next ==
  \/ Load
  \/ MainMenu
  \/ AddAmount
  \/ AddCategory
  \/ AddDate
  \/ EditSelect
  \/ EditAmount
  \/ EditCategory
  \/ EditDate
  \/ DeleteSelect
  \/ DeleteConfirm
  \/ Interrupt

Spec == Init /\ [][Next]_vars

(***************************************************************************)
(* sanitize_amount on its own: one call on an arbitrary short text.        *)
(***************************************************************************)
AmountAlphabet == {"0", "1", ".", "-", ",", " ", "Rs"}

Texts == UNION { [1..n -> AmountAlphabet] : n \in 0..MaxLen }

InitAmount ==
  /\ pc = "sanitize"
  /\ expenses = <<>>
  /\ file = Missing
  /\ backups = {}
  /\ saveFailed = FALSE
  /\ amount = ValueError
  /\ category = <<>>
  /\ item = NoItem
  /\ orig_index = 0
  /\ inp = <<>>
  /\ ev = "none"
  /\ saveCalls = 0
  /\ start = <<>>
  /\ text \in Texts
  /\ result = ValueError
  /\ parsed = FALSE

SanitizeCall ==
  /\ ~parsed
  /\ parsed' = TRUE
  /\ result' = sanitize_amount(text)
  /\ UNCHANGED <<pc, expenses, file, backups, saveFailed, amount, category,
                 item, orig_index, inp, ev, saveCalls, start, text>>

NextAmount == SanitizeCall

SpecAmount == InitAmount /\ [][NextAmount]_vars

(***************************************************************************)
(* Vocabulary of the properties.                                           *)
(***************************************************************************)
\* the file holds exactly the records recs, a missing file holding none
FileHolds(recs) == file = List(recs) \/ (file = Missing /\ recs = <<>>)

\* the text is the cancel sentinel
IsCancel(s) == lower(strip(s)) = Q

\* the position 1..n the text names, 0 when it is not a number in 1..n
Position(s, n) ==
  IF \E k \in 1..n : strip(s) = NatToDigits(k)
  THEN CHOOSE k \in 1..n : strip(s) = NatToDigits(k)
  ELSE 0

\* the display ordering: dates descending as strings, equal dates in
\* storage order; DisplayPerm[i] is the storage index of the i-th line
DisplayPerm(recs) ==
  LET n == Len(recs)
  IN CHOOSE p \in [1..n -> 1..n] :
       /\ \A i, j \in 1..n : i # j => p[i] # p[j]
       /\ \A i, j \in 1..n : i < j =>
            /\ ~StrLess(recs[p[i]].date, recs[p[j]].date)
            /\ recs[p[i]].date = recs[p[j]].date => p[i] < p[j]

Displayed(recs, k) == recs[DisplayPerm(recs)[k]]

\* i is the first storage position holding a record equal to r
IsFirstEqual(recs, i, r) ==
  /\ i \in 1..Len(recs)
  /\ recs[i] = r
  /\ \A j \in 1..(i - 1) : recs[j] # r

\* recs without its i-th element
Without(recs, i) ==
  [j \in 1..(Len(recs) - 1) |-> IF j < i THEN recs[j] ELSE recs[j + 1]]

\* YYYY-MM-DD: four digits, two digits, two digits
IsCanonical(d) ==
  /\ Len(d) = 10
  /\ d[5] = "-" /\ d[8] = "-"
  /\ \A i \in {1, 2, 3, 4, 6, 7, 9, 10} : d[i] \in Digits

Saved(recs) == saveCalls' = 1 /\ (file' = List(recs) \/ saveFailed')

NotSaved == saveCalls' = 0 /\ file' = file

InputAt(prompts) == pc \in prompts /\ ev' = "input"

(***************************************************************************)
(* C1.  The file and the in-memory list at the main menu.                  *)
(***************************************************************************)
\* C1 as stated: whenever the session waits at the main menu and no save
\* attempt has failed, the file holds exactly the in-memory records (a
\* missing file holding none).
C1_FileEqualsMemory == (pc = "menu" /\ ~saveFailed) => FileHolds(expenses)

\* C1, amended: whenever the session waits at the main menu and no save
\* attempt has failed, either the file holds exactly the in-memory records,
\* or nothing has been saved since load found a file that is not a list
\* (wrong shape, unreadable, or corrupt and not moved away): then the list
\* is empty and the file still has the content load found.
C1_FileEqualsMemoryOnceWritten ==
  (pc = "menu" /\ ~saveFailed) =>
     \/ FileHolds(expenses)
     \/ /\ file \in {Object, Unreadable, Garbage("not json")}
        /\ expenses = <<>>

C1_Witness ==
  /\ pc = "menu"
  /\ ~saveFailed
  /\ saveCalls = 1
  /\ Len(expenses) = 2
  /\ expenses[1] # expenses[2]
  /\ file = List(expenses)

(***************************************************************************)
(* C2.  Invalid selections in edit_expense and delete_expense.             *)
(***************************************************************************)
\* C2: at the selection prompt of edit and of delete, a text that is not a
\* number in 1..N makes the operation return to the menu with the list and
\* the file as they were and without a call of save_expenses.
C2_Step ==
  (InputAt({"edit_sel", "del_sel"}) /\ Position(inp', Len(expenses)) = 0) =>
     /\ pc' = "menu"
     /\ expenses' = expenses
     /\ NotSaved

C2_InvalidSelectionAborts == [][C2_Step]_vars

(***************************************************************************)
(* C3.  The cancel sentinel.                                               *)
(***************************************************************************)
\* C3 as stated: at every prompt of add, edit and delete, 'q' ends the
\* operation and leaves the list and the file as they were when the
\* operation started.
C3_StepAll ==
  (InputAt(AddPrompts \cup EditPrompts \cup DeletePrompts) /\ IsCancel(inp')) =>
     /\ pc' = "menu"
     /\ expenses' = start
     /\ NotSaved

C3_CancelEverywhere == [][C3_StepAll]_vars

\* C3, amended: 'q' ends the operation, leaving the list and the file as
\* they were when it started, at the three prompts of add, at the selection
\* prompt of edit and at both prompts of delete.  At the field prompts of
\* edit 'q' is ordinary text: the amount and the date cannot be parsed from
\* it and keep their value, the category becomes "Q", and the edit goes on
\* to its save.
C3_Step ==
  /\ (InputAt(AddPrompts \cup DeletePrompts \cup {"edit_sel"}) /\ IsCancel(inp')) =>
        /\ pc' = "menu"
        /\ expenses' = start
        /\ expenses' = expenses
        /\ NotSaved
  /\ (InputAt({"edit_amt"}) /\ IsCancel(inp')) =>
        /\ pc' = "edit_cat"
        /\ expenses' = expenses
        /\ NotSaved
  /\ (InputAt({"edit_cat"}) /\ IsCancel(inp')) =>
        /\ pc' = "edit_date"
        /\ expenses' = [expenses EXCEPT ![orig_index].category = <<"Q">>]
        /\ NotSaved
  /\ (InputAt({"edit_date"}) /\ IsCancel(inp')) =>
        /\ pc' = "menu"
        /\ expenses' = expenses
        /\ Saved(expenses)

C3_CancelWhereOffered == [][C3_Step]_vars

\* a delete cancelled at its confirmation prompt
C3_Witness ==
  /\ pc = "menu"
  /\ ev = "input"
  /\ inp = <<"q">>
  /\ saveCalls = 0
  /\ Len(expenses) = 3
  /\ file = List(expenses)

(***************************************************************************)
(* C4.  delete_expense.                                                    *)
(***************************************************************************)
\* C4: a number k in 1..N typed at the selection prompt of delete selects
\* the k-th record r of the display ordering; confirmed with 'y', the
\* first storage element equal to r is removed, the list gets one shorter,
\* everything else keeps its value and order, and the result is saved; with
\* any other confirmation nothing is removed and nothing is saved.
C4_Step ==
  /\ (InputAt({"del_sel"}) /\ Position(inp', Len(expenses)) # 0) =>
        /\ pc' = "del_confirm"
        /\ item' = Ok(Displayed(expenses, Position(inp', Len(expenses))))
        /\ expenses' = expenses
        /\ NotSaved
  /\ (InputAt({"del_confirm"}) /\ Position(inp, Len(expenses)) # 0) =>
        LET r == Displayed(expenses, Position(inp, Len(expenses)))
        IN /\ pc' = "menu"
           /\ IF lower(strip(inp')) = <<"y">>
              THEN /\ \E i \in 1..Len(expenses) :
                        IsFirstEqual(expenses, i, r) /\ expenses' = Without(expenses, i)
                   /\ Len(expenses') = Len(expenses) - 1
                   /\ Saved(expenses')
              ELSE expenses' = expenses /\ NotSaved

C4_DeleteRemovesFirstEqual == [][C4_Step]_vars

\* one of the two equal records of <<RecA, RecB, RecA>> has been deleted
C4_Witness ==
  /\ pc = "menu"
  /\ ev = "input"
  /\ lower(strip(inp)) = <<"y">>
  /\ saveCalls = 1
  /\ expenses = <<RecB, RecA>>
  /\ file = List(expenses)

(***************************************************************************)
(* C5.  edit_expense.                                                      *)
(***************************************************************************)
\* C5: a number k in 1..N typed at the selection prompt of edit selects the
\* first storage element equal to the k-th displayed record; then for the
\* amount, the category and the date in turn a blank text keeps the value,
\* a text that parses sets it to the parsed value and a text that does not
\* parse keeps it, the edit going on to the next field; no other record
\* and no position changes, and save_expenses is called once, after the
\* date prompt, whether or not a field changed.
C5_Step ==
  /\ (InputAt({"edit_sel"}) /\ Position(inp', Len(expenses)) # 0) =>
        /\ pc' = "edit_amt"
        /\ IsFirstEqual(expenses, orig_index',
                        Displayed(expenses, Position(inp', Len(expenses))))
        /\ expenses' = expenses
        /\ NotSaved
  /\ InputAt({"edit_amt"}) =>
        LET t == strip(inp')
            r == sanitize_amount(t)
        IN /\ pc' = "edit_cat"
           /\ orig_index' = orig_index
           /\ expenses' = IF t = <<>> \/ ~r.ok THEN expenses
                          ELSE [expenses EXCEPT ![orig_index].amount = r.val]
           /\ NotSaved
  /\ InputAt({"edit_cat"}) =>
        LET t == strip(inp')
        IN /\ pc' = "edit_date"
           /\ orig_index' = orig_index
           /\ expenses' = IF t = <<>> THEN expenses
                          ELSE [expenses EXCEPT ![orig_index].category = title(t)]
           /\ NotSaved
  /\ InputAt({"edit_date"}) =>
        LET t == strip(inp')
            r == parse_date(t)
        IN /\ pc' = "menu"
           /\ expenses' = IF t = <<>> \/ ~r.ok THEN expenses
                          ELSE [expenses EXCEPT ![orig_index].date = r.val]
           /\ Saved(expenses')

C5_EditFieldByField == [][C5_Step]_vars

\* the amount typed did not parse, its value is kept, and the edit of the
\* second of two equal records has moved on to the category of the first
C5_Witness ==
  /\ pc = "edit_cat"
  /\ inp = <<".">>
  /\ expenses = <<RecA, RecB, RecA>>
  /\ item = Ok(RecA)
  /\ orig_index = 1

(***************************************************************************)
(* C6.  load_expenses.                                                     *)
(***************************************************************************)
\* C6: load_expenses always returns, with the empty list unless the file
\* holds a list; a backup file appears exactly when the content does not
\* parse and the move succeeds, and then the original path is gone and the
\* backup has the original content; a failed move changes nothing; a
\* missing or wrong-shaped file leaves all files as they are.
C6_Step ==
  ev' = "load" =>
     /\ pc' = "menu"
     /\ file.kind # "list" => expenses' = <<>>
     /\ backups' # backups =>
          file.kind = "garbage" /\ file' = Missing /\ backups' = backups \cup {file}
     /\ file.kind = "garbage" =>
          \/ file' = Missing /\ backups' = backups \cup {file}
          \/ file' = file /\ backups' = backups
     /\ file.kind \in {"missing", "object", "unreadable", "list"} =>
          file' = file /\ backups' = backups

C6_LoadIsTotal == [][C6_Step]_vars

C6_Witness ==
  /\ pc = "menu"
  /\ ev = "load"
  /\ expenses = <<>>
  /\ file = Missing
  /\ backups = {Garbage("not json")}

(***************************************************************************)
(* C7.  Dates in storage.                                                  *)
(***************************************************************************)
\* C7: every record in memory and in the file has a date of the form
\* YYYY-MM-DD.
C7_DatesCanonical ==
  /\ \A i \in 1..Len(expenses) : IsCanonical(expenses[i].date)
  /\ file.kind = "list" => \A i \in 1..Len(file.data) : IsCanonical(file.data[i].date)

(***************************************************************************)
(* C8.  The operator interrupt.                                            *)
(***************************************************************************)
\* C8 as stated: an interrupt at any prompt makes one save attempt of the
\* in-memory list and ends the session.
C8_StepAll ==
  ev' = "interrupt" => pc' = "done" /\ saveCalls' = 1

C8_InterruptEndsSession == [][C8_StepAll]_vars

\* C8, amended: an interrupt at the main menu or at a prompt of edit or
\* delete makes one save attempt of the in-memory list and ends the
\* session, after which nothing more happens; an interrupt at a prompt of
\* add is caught by add_expense, which gives up the add without a change
\* and without a save, and the session is back at the main menu.
C8_Step ==
  /\ pc # "done"
  /\ ev' = "interrupt" =>
       IF pc \in AddPrompts
       THEN pc' = "menu" /\ expenses' = expenses /\ expenses' = start /\ NotSaved
       ELSE pc' = "done" /\ expenses' = expenses /\ Saved(expenses)

C8_InterruptSavesOutsideAdd == [][C8_Step]_vars

\* interrupted in the middle of an edit: the half-edited list was saved
C8_Witness ==
  /\ pc = "done"
  /\ ev = "interrupt"
  /\ saveCalls = 1
  /\ ~saveFailed
  /\ Len(expenses) = 3
  /\ expenses[1].amount # RecA.amount
  /\ file = List(expenses)

(***************************************************************************)
(* C9.  sanitize_amount.                                                   *)
(***************************************************************************)
HasNumChar(s) == \E i \in 1..Len(s) : s[i] \in Digits \cup {".", "-"}

\* the characters of s that are digits, '.' or '-', in order
RECURSIVE Kept(_)
Kept(s) ==
  IF s = <<>> THEN <<>>
  ELSE IF Head(s) \in Digits \cup {".", "-"} THEN <<Head(s)>> \o Kept(Tail(s))
  ELSE Kept(Tail(s))

Pow10(k) == IF k = 0 THEN 1 ELSE IF k = 1 THEN 10 ELSE IF k = 2 THEN 100
            ELSE IF k = 3 THEN 1000 ELSE 10000

\* v is the number the numeral c denotes: c is an optional '-', then digits
\* with at most one '.', at least one digit in all
Denotes(c, v) ==
  \E sg \in {0, 1} : \E dot \in 0..Len(c) :
     LET body  == SubSeq(c, sg + 1, Len(c))
         whole == IF dot = 0 THEN body ELSE SubSeq(c, sg + 1, dot - 1)
         fract == IF dot = 0 THEN <<>> ELSE SubSeq(c, dot + 1, Len(c))
         mag   == DigitsToNat(whole \o fract)
     IN /\ sg = 1 => (c # <<>> /\ c[1] = "-")
        /\ dot # 0 => (dot > sg /\ c[dot] = ".")
        /\ AllDigits(whole) /\ AllDigits(fract)
        /\ whole \o fract # <<>>
        /\ v.n * Pow10(Len(fract)) = (IF sg = 1 THEN 0 - mag ELSE mag) * Pow10(v.e)

IsNumeral(c) ==
  \E sg \in {0, 1} : \E dot \in 0..Len(c) :
     LET whole == IF dot = 0 THEN SubSeq(c, sg + 1, Len(c)) ELSE SubSeq(c, sg + 1, dot - 1)
         fract == IF dot = 0 THEN <<>> ELSE SubSeq(c, dot + 1, Len(c))
     IN /\ sg = 1 => (c # <<>> /\ c[1] = "-")
        /\ dot # 0 => (dot > sg /\ c[dot] = ".")
        /\ AllDigits(whole) /\ AllDigits(fract)
        /\ whole \o fract # <<>>

\* C9 as stated: sanitize_amount fails on a text without a digit, '.' or
\* '-', and returns a number on every text that has one.
C9_NumberWheneverNumChar ==
  parsed => (result.ok <=> HasNumChar(text))

\* C9, amended: sanitize_amount fails on a text without a digit, '.' or '-';
\* on a text that has one, its outcome is that of parsing the text with all
\* other characters removed: the number it denotes when what is left is a
\* numeral, a failure when it is not (only '.', only '-', several '.', a
\* '-' that is not in front).
C9_ParsesWhatIsKept ==
  parsed =>
     /\ ~HasNumChar(text) => ~result.ok
     /\ HasNumChar(text) =>
          IF IsNumeral(Kept(text))
          THEN result.ok /\ Denotes(Kept(text), result.val)
          ELSE ~result.ok

C9_Witness ==
  /\ parsed
  /\ text = <<"Rs", "-", "1">>
  /\ result = Ok([n |-> 0 - 1, e |-> 0])

(***************************************************************************)
(* C10.  add_expense.                                                      *)
(***************************************************************************)
\* C10: an add that is not cancelled appends one record, made of the parsed
\* amount, the title-cased category ("Misc" when blank) and the date in
\* YYYY-MM-DD form (today when blank), at the end of the list, changes
\* nothing else and saves; a rejected amount or date only prompts again; a
\* cancelled add appends nothing and saves nothing.
C10_Step ==
  /\ (InputAt({"add_amt"}) /\ ~IsCancel(inp')) =>
        LET r == sanitize_amount(strip(inp'))
        IN /\ expenses' = expenses
           /\ NotSaved
           /\ IF r.ok THEN pc' = "add_cat" /\ amount' = r
              ELSE pc' = "add_amt"
  /\ (InputAt({"add_cat"}) /\ ~IsCancel(inp')) =>
        /\ expenses' = expenses
        /\ NotSaved
        /\ pc' = "add_date"
        /\ amount' = amount
        /\ category' = IF strip(inp') = <<>> THEN MISC ELSE title(strip(inp'))
  /\ (InputAt({"add_date"}) /\ ~IsCancel(inp')) =>
        IF parse_date(inp').ok
        THEN /\ pc' = "menu"
             /\ Len(expenses') = Len(expenses) + 1
             /\ SubSeq(expenses', 1, Len(expenses)) = expenses
             /\ LET new == expenses'[Len(expenses')]
                IN /\ new.amount = amount.val
                   /\ new.category = category
                   /\ IsCanonical(new.date)
                   /\ strip(inp') = <<>> => new.date = D0301
             /\ Saved(expenses')
        ELSE pc' = "add_date" /\ expenses' = expenses /\ NotSaved
  /\ (InputAt(AddPrompts) /\ IsCancel(inp')) =>
        pc' = "menu" /\ expenses' = expenses /\ NotSaved

C10_AddAppendsOne == [][C10_Step]_vars

====
